---- MODULE Spec2Model ----
(***************************************************************************)
(* Model of the Aetherium outbound request gateway                         *)
(* (src/app/api/proxy/route.ts): the POST handler as a state machine with  *)
(* one position per suspension point (await), the 30 s abort timer as a    *)
(* concurrent callback, and the pure helpers (URL parsing, the direct-IP   *)
(* regexes, DNS_MAPPINGS and /etc/hosts lookups, JSON handling) as         *)
(* operators over strings.  A string is a sequence of one-character        *)
(* strings, so that replace / split / startsWith / toUpperCase are         *)
(* computed the way the code computes them.                                *)
(***************************************************************************)
EXTENDS Integers, Sequences, FiniteSets, TLC

(***************************************************************************)
(* Strings                                                                 *)
(***************************************************************************)
LowerAlpha == <<"a","b","c","d","e","f","g","h","i","j","k","l","m",
                "n","o","p","q","r","s","t","u","v","w","x","y","z">>

UpperAlpha == <<"A","B","C","D","E","F","G","H","I","J","K","L","M",
                "N","O","P","Q","R","S","T","U","V","W","X","Y","Z">>

Digits == {"0","1","2","3","4","5","6","7","8","9"}

HexDigits == Digits \cup {"a","b","c","d","e","f","A","B","C","D","E","F"}

Range(s) == {s[i] : i \in 1..Len(s)}

IndexIn(c, alpha) == CHOOSE i \in 1..Len(alpha) : alpha[i] = c

UpperChar(c) == IF c \in Range(LowerAlpha) THEN UpperAlpha[IndexIn(c, LowerAlpha)] ELSE c

LowerChar(c) == IF c \in Range(UpperAlpha) THEN LowerAlpha[IndexIn(c, UpperAlpha)] ELSE c

\* String.prototype.toUpperCase
toUpperCase(s) == [i \in 1..Len(s) |-> UpperChar(s[i])]

toLowerCase(s) == [i \in 1..Len(s) |-> LowerChar(s[i])]

\* String.prototype.startsWith
startsWith(s, p) == Len(p) <= Len(s) /\ SubSeq(s, 1, Len(p)) = p

\* String.prototype.indexOf, 1-based; 0 when p does not occur in s
indexOf(s, p) ==
    LET hits == {i \in 1..(Len(s) - Len(p) + 1) : SubSeq(s, i, i + Len(p) - 1) = p}
    IN  IF hits = {} THEN 0 ELSE CHOOSE i \in hits : \A j \in hits : i <= j

\* String.prototype.includes
includes(s, p) == indexOf(s, p) # 0

\* String.prototype.replace with a string pattern: the FIRST occurrence only
replace(s, p, r) ==
    LET i == indexOf(s, p)
    IN  IF i = 0 THEN s
        ELSE SubSeq(s, 1, i - 1) \o r \o SubSeq(s, i + Len(p), Len(s))

\* String.prototype.split with a one-character separator
RECURSIVE split(_, _)
split(s, c) ==
    LET i == indexOf(s, <<c>>)
    IN  IF i = 0 THEN <<s>>
        ELSE <<SubSeq(s, 1, i - 1)>> \o split(SubSeq(s, i + 1, Len(s)), c)

WhiteSpace == {" ", "\t", "\n", "\r"}

RECURSIVE trimStart(_)
trimStart(s) == IF s # <<>> /\ Head(s) \in WhiteSpace THEN trimStart(Tail(s)) ELSE s

RECURSIVE trimEnd(_)
trimEnd(s) ==
    IF s # <<>> /\ s[Len(s)] \in WhiteSpace THEN trimEnd(SubSeq(s, 1, Len(s) - 1)) ELSE s

\* String.prototype.trim
trim(s) == trimStart(trimEnd(s))

\* String.prototype.split(/\s+/) applied to a trimmed, non-empty string
RECURSIVE splitWs(_)
splitWs(s) ==
    LET ws == {i \in 1..Len(s) : s[i] \in WhiteSpace}
    IN  IF ws = {} THEN <<s>>
        ELSE LET i == CHOOSE k \in ws : \A j \in ws : k <= j
             IN  <<SubSeq(s, 1, i - 1)>> \o splitWs(trimStart(SubSeq(s, i, Len(s))))

(***************************************************************************)
(* JavaScript values of the request payload                                *)
(***************************************************************************)
Undefined == [t |-> "undefined", s |-> <<>>]

Str(s) == [t |-> "string", s |-> s]

\* a structured (object) value, carried as the text JSON.stringify gives for it
Obj(json) == [t |-> "object", s |-> json]

\* a number: truthy, no string methods
Num == [t |-> "number", s |-> <<"7">>]

\* JavaScript truthiness of a payload value
Truthy(v) ==
    CASE v.t = "undefined" -> FALSE
      [] v.t = "string"    -> v.s # <<>>
      [] OTHER             -> TRUE

(***************************************************************************)
(* new URL(url): the WHATWG parser on absolute URLs.  Only the parts the   *)
(* handler reads are computed: whether parsing throws, and hostname.       *)
(***************************************************************************)
SchemeChars == Range(LowerAlpha) \cup Range(UpperAlpha) \cup Digits \cup {"+", "-", "."}

SpecialSchemes == { <<"h","t","t","p">>, <<"h","t","t","p","s">> }

\* position of the first character of s that is in set cs; Len(s)+1 if none
FirstOf(s, cs) ==
    LET hits == {i \in 1..Len(s) : s[i] \in cs}
    IN  IF hits = {} THEN Len(s) + 1 ELSE CHOOSE i \in hits : \A j \in hits : i <= j

\* position of the last occurrence of character c in s; 0 if none
LastOf(s, c) ==
    LET hits == {i \in 1..Len(s) : s[i] = c}
    IN  IF hits = {} THEN 0 ELSE CHOOSE i \in hits : \A j \in hits : i >= j

\* the host[:port] text of an authority: what follows the last "@"
HostPort(authority) == SubSeq(authority, LastOf(authority, "@") + 1, Len(authority))

\* the host of host[:port]; a bracketed IPv6 literal keeps its brackets
HostOf(hp) ==
    IF hp # <<>> /\ Head(hp) = "["
    THEN SubSeq(hp, 1, IF LastOf(hp, "]") = 0 THEN Len(hp) ELSE LastOf(hp, "]"))
    ELSE SubSeq(hp, 1, FirstOf(hp, {":"}) - 1)

ParseURL(raw) ==
    LET u      == trim(raw)
        colon  == FirstOf(u, {":"})
        scheme == toLowerCase(SubSeq(u, 1, colon - 1))
        rest   == SubSeq(u, colon + 1, Len(u))
        special == scheme \in SpecialSchemes
        \* special schemes ignore any run of slashes after the colon
        afterSl == IF special
                   THEN SubSeq(rest, FirstOf(rest, Range(rest) \ {"/", "\\"}), Len(rest))
                   ELSE IF startsWith(rest, <<"/", "/">>) THEN SubSeq(rest, 3, Len(rest))
                   ELSE <<>>
        auth   == SubSeq(afterSl, 1,
                         FirstOf(afterSl, IF special THEN {"/", "\\", "?", "#"}
                                                     ELSE {"/", "?", "#"}) - 1)
        host   == HostOf(HostPort(auth))
        schemeOk == /\ colon <= Len(u)
                    /\ colon > 1
                    /\ u[1] \in Range(LowerAlpha) \cup Range(UpperAlpha)
                    /\ \A i \in 1..(colon - 1) : u[i] \in SchemeChars
    IN  IF ~schemeOk \/ (special /\ host = <<>>)
        THEN [ok |-> FALSE, protocol |-> <<>>, hostname |-> <<>>]
        ELSE [ok |-> TRUE,
              protocol |-> scheme \o <<":">>,
              hostname |-> IF special THEN toLowerCase(host) ELSE host]

\* /^(\d{1,3}\.){3}\d{1,3}$/.test(hostname)
IsIPv4Literal(h) ==
    LET parts == split(h, ".")
    IN  /\ Len(parts) = 4
        /\ \A i \in 1..4 : /\ Len(parts[i]) \in 1..3
                           /\ Range(parts[i]) \subseteq Digits

\* /^([0-9a-fA-F]{0,4}:){2,7}[0-9a-fA-F]{0,4}$/.test(hostname)
IsIPv6Literal(h) ==
    LET parts == split(h, ":")
    IN  /\ Len(parts) \in 3..8
        /\ \A i \in 1..Len(parts) : /\ Len(parts[i]) \in 0..4
                                    /\ Range(parts[i]) \subseteq HexDigits

isDirectIP(h) == IsIPv4Literal(h) \/ IsIPv6Literal(h)

(***************************************************************************)
(* Static mapping table (process.env.DNS_MAPPINGS) and /etc/hosts          *)
(***************************************************************************)
\* a lookup result: null/undefined (none) or an address string
NoAddr == [found |-> FALSE, ip |-> <<>>]

Addr(ip) == [found |-> TRUE, ip |-> ip]

\* `if (envMapping)` / `if (hostsEntry)`: null, undefined and "" are falsy
AddrTruthy(a) == a.found /\ a.ip # <<>>

\* the first entry of mappings, from index i on, whose host equals hostname
RECURSIVE EnvScan(_, _, _)
EnvScan(mappings, i, hostname) ==
    IF i > Len(mappings) THEN NoAddr
    ELSE LET kv == split(mappings[i], "=")
             host == trim(kv[1])
         IN  IF host = hostname
             THEN (IF Len(kv) >= 2 THEN Addr(trim(kv[2])) ELSE NoAddr)
             ELSE EnvScan(mappings, i + 1, hostname)

\* getEnvDnsMapping(hostname); dnsMappings = <<>> models an unset variable
getEnvDnsMapping(dnsMappings, hostname) ==
    IF dnsMappings = <<>> THEN NoAddr
    ELSE EnvScan(split(dnsMappings, ","), 1, hostname)

RECURSIVE HostsScan(_, _, _)
HostsScan(lines, i, hostname) ==
    IF i > Len(lines) THEN NoAddr
    ELSE LET trimmedLine == trim(lines[i])
         IN  IF trimmedLine = <<>> \/ Head(trimmedLine) = "#"
             THEN HostsScan(lines, i + 1, hostname)
             ELSE LET parts == splitWs(trimmedLine)
                  IN  IF Len(parts) >= 2
                         /\ \E k \in 2..Len(parts) : parts[k] = hostname
                      THEN Addr(parts[1])
                      ELSE HostsScan(lines, i + 1, hostname)

\* checkEtcHosts(hostname): readable = FALSE models readFile throwing
checkEtcHosts(readable, hostsContent, hostname) ==
    IF ~readable THEN NoAddr
    ELSE HostsScan(split(hostsContent, "\n"), 1, hostname)

(***************************************************************************)
(* JSON: response.json() and JSON.stringify(value, null, 2), on the JSON   *)
(* texts without white space whose value is an integer or a flat object of *)
(* integer members.                                                        *)
(***************************************************************************)
IsJsonInt(s) == s # <<>> /\ Range(s) \subseteq Digits

IsJsonKey(s) ==
    /\ Len(s) >= 2
    /\ s[1] = "\"" /\ s[Len(s)] = "\""
    /\ \A i \in 2..(Len(s) - 1) : s[i] \in Range(LowerAlpha)

IsJsonMember(m) ==
    LET kv == split(m, ":")
    IN  Len(kv) = 2 /\ IsJsonKey(kv[1]) /\ IsJsonInt(kv[2])

\* JSON.parse: ok = FALSE is the SyntaxError; members are the "key":value texts
JsonParse(s) ==
    IF IsJsonInt(s) THEN [ok |-> TRUE, kind |-> "number", num |-> s, members |-> <<>>]
    ELSE IF Len(s) >= 2 /\ s[1] = "{" /\ s[Len(s)] = "}"
    THEN LET inner == SubSeq(s, 2, Len(s) - 1)
             ms    == IF inner = <<>> THEN <<>> ELSE split(inner, ",")
         IN  IF \A i \in 1..Len(ms) : IsJsonMember(ms[i])
             THEN [ok |-> TRUE, kind |-> "object", num |-> <<>>, members |-> ms]
             ELSE [ok |-> FALSE, kind |-> "error", num |-> <<>>, members |-> <<>>]
    ELSE [ok |-> FALSE, kind |-> "error", num |-> <<>>, members |-> <<>>]

\* one member of an indented object: two spaces, "key": value
PrettyMember(m) ==
    LET kv == split(m, ":") IN <<" ", " ">> \o kv[1] \o <<":", " ">> \o kv[2]

RECURSIVE PrettyMembers(_, _)
PrettyMembers(ms, i) ==
    IF i > Len(ms) THEN <<>>
    ELSE PrettyMember(ms[i])
         \o (IF i < Len(ms) THEN <<",", "\n">> ELSE <<>>)
         \o PrettyMembers(ms, i + 1)

\* JSON.stringify(jsonData, null, 2)
JsonStringify2(v) ==
    IF v.kind = "number" THEN v.num
    ELSE IF v.members = <<>> THEN <<"{", "}">>
    ELSE <<"{", "\n">> \o PrettyMembers(v.members, 1) \o <<"\n", "}">>

(***************************************************************************)
(* Header objects: functions from header names to values                   *)
(***************************************************************************)
NoHeaders == [k \in {} |-> <<>>]

\* object spread { ...a, ...b }: b wins on equal keys
Spread(a, b) ==
    [k \in DOMAIN a \cup DOMAIN b |-> IF k \in DOMAIN b THEN b[k] ELSE a[k]]

\* requestHeaders[name], read for truthiness
HeaderTruthy(h, name) == name \in DOMAIN h /\ h[name] # <<>>

DefaultHeaders == [k \in {"User-Agent"} |-> <<"HTTP-Client-Server/1.0">>]

validMethods == { <<"G","E","T">>, <<"P","O","S","T">>, <<"P","U","T">>,
                  <<"D","E","L","E","T","E">>, <<"P","A","T","C","H">>,
                  <<"H","E","A","D">>, <<"O","P","T","I","O","N","S">> }

bodylessMethods == { <<"G","E","T">>, <<"H","E","A","D">> }

TimeoutMs == 30000

(***************************************************************************)
(* Inputs: the request payloads, the process configuration and the         *)
(* behaviours of the remote end that the model explores.                    *)
(***************************************************************************)
UrlHttp      == Str(<<"h","t","t","p",":","/","/","a",".","t","/">>)
UrlHttps     == Str(<<"h","t","t","p","s",":","/","/","a",".","t","/","p">>)
UrlUpper     == Str(<<"H","T","T","P","S",":","/","/","A",".","T","/">>)
UrlIPv4      == Str(<<"h","t","t","p",":","/","/","1","0",".","0",".","0",".","9","/">>)
UrlIPv6      == Str(<<"h","t","t","p","s",":","/","/","[",":",":","1","]","/">>)
UrlHostInScheme == Str(<<"h","t","t","p","s",":","/","/","t","t","/">>)
UrlNoScheme  == Str(<<"a",".","t","/","x">>)
UrlEmpty     == Str(<<>>)

Urls == {Undefined, UrlEmpty, UrlNoScheme, UrlHttp, UrlHttps, UrlUpper,
         UrlIPv4, UrlIPv6, UrlHostInScheme}

Methods == {Undefined, Str(<<>>), Num,
            Str(<<"G","E","T">>), Str(<<"g","e","t">>), Str(<<"H","e","A","d">>),
            Str(<<"P","O","S","T">>), Str(<<"p","o","s","t">>), Str(<<"F","O","O">>)}

Bodies == {Undefined, Str(<<"h","i">>), Obj(<<"{","\"","x","\"",":","1","}">>)}

HeaderSets == {NoHeaders,
               [k \in {"Content-Type"} |-> <<"text/plain">>],
               [k \in {"CONTENT-TYPE"} |-> <<"text/plain">>]}

\* base64 texts: a PEM certificate, and text without a certificate marker
CaPem == Str(<<"LS0tLS1CRUdJTiBDRVJUSUZJQ0FURS0tLS0tCk1JSUIKLS0tLS1FTkQgQ0VSVElGSUNBVEUtLS0tLQ==">>)

CaGarbage == Str(<<"aGVsbG8=">>)

CaCertificates == {Undefined, CaPem, CaGarbage}

\* a payload that is not JSON: request.json() throws SyntaxError
BadPayload ==
    [jsonOk |-> FALSE, method |-> Undefined, url |-> Undefined, headers |-> NoHeaders,
     body |-> Undefined, insecureSSL |-> FALSE, caCertificate |-> Undefined]

Payloads ==
    [jsonOk : {TRUE}, method : Methods, url : Urls, headers : HeaderSets,
     body : Bodies, insecureSSL : BOOLEAN, caCertificate : CaCertificates]

\* values of process.env.DNS_MAPPINGS (<<>>: unset)
DnsMappingValues == {<<>>, <<"a",".","t","=","1","0",".","0",".","0",".","1",","," ","t","t"," ","="," ","1","0",".","0",".","0",".","3",",","[",":",":","1","]","=","1","0",".","0",".","0",".","4">>}

\* content of /etc/hosts
HostsContent == <<"#"," ","h","\n","1","0",".","0",".","0",".","2"," ","b",".","t"," ","a",".","t","\n">>

\* what the remote end may answer
RespJson ==
    [status |-> 200, statusText |-> "OK",
     headers |-> [k \in {"content-type"} |-> <<"application/json">>],
     body |-> <<"{","\"","a","\"",":","1","}">>]

RespBadJson ==
    [status |-> 200, statusText |-> "OK",
     headers |-> [k \in {"content-type"} |-> <<"application/json", "; charset=utf-8">>],
     body |-> <<"{","a">>]

RespText ==
    [status |-> 404, statusText |-> "Not Found",
     headers |-> [k \in {"content-type"} |-> <<"text/plain">>],
     body |-> <<"n","o">>]

\* where RespRedirect points
RedirectTarget == <<"h","t","t","p",":","/","/","a",".","t","/","n">>

RespRedirect ==
    [status |-> 302, statusText |-> "Found",
     headers |-> [k \in {"location"} |-> RedirectTarget],
     body |-> <<>>]

RemoteResponses == {RespJson, RespBadJson, RespText, RespRedirect}

\* the statuses fetch follows when the response has a location
RedirectStatuses == {301, 302, 303, 307, 308}

\* messages of the errors the transports reject with (other than an abort)
TransportErrors == {"fetch failed", "connect ECONNREFUSED", "socket hang up"}

(***************************************************************************)
(* State of one invocation of POST                                         *)
(***************************************************************************)
VARIABLES
    req,              \* the payload request.json() yields
    dnsMappings,      \* process.env.DNS_MAPPINGS
    pc,               \* position of the handler: the await it is suspended at
    hostname,         \* parsedUrl.hostname
    resolvedUrl,      \* the URL that will be dialed
    customResolution, \* whether the address was substituted
    envMapping,       \* result of getEnvDnsMapping, kept across the hosts read
    timer,            \* timeoutId: "unset", "armed", "fired" or "cleared"
    out,              \* the outbound call handed to makeRequest
    resp,             \* the Response makeRequest resolved with
    reply,            \* what the handler returned
    dnsLookups,       \* number of system resolver calls made
    hostsReads,       \* number of reads of /etc/hosts started
    outboundCalls,    \* number of calls of makeRequest
    peer,             \* a second invocation of the handler, suspended at an await
    historyTable,     \* rows of the SQLite table "history"
    historySaved,     \* the items the history route accepted, by id
    historyReply,     \* what the history route returned last
    uiPc,             \* position of sendRequest in the page component
    uiRequest,        \* the request state sendRequest closed over
    uiLoading,        \* the page's loading state
    uiResponse,       \* the page's response state
    uiHistory,        \* the page's history state
    uiData,           \* what the awaits of sendRequest settled with
    uiBefore,         \* the history state when the send began
    uiSends,          \* number of sends begun
    localStorage,     \* the browser's localStorage item "http-client-history"
    requestsTable,    \* rows of the SQLite table "collection_requests"
    requestsReply,    \* what the collections routes returned last
    hookHistory,      \* the history state of useDatabase
    hookCalls         \* the calls of saveHistoryItem awaiting their fetch

\* the state of the history store
store == <<historyTable, historySaved, historyReply>>

\* the state of the page component
page == <<uiPc, uiRequest, uiLoading, uiResponse, uiHistory, uiData, uiBefore, uiSends>>

\* the state of the collection requests store
catalog == <<requestsTable, requestsReply>>

\* the state of the useDatabase hook
hook == <<hookHistory, hookCalls>>

\* everything outside the invocation that is running
others == <<peer, store, page, catalog, hook, localStorage>>

\* the gateway: the running invocation and the process environment
gateway == <<req, dnsMappings, pc, hostname, resolvedUrl, customResolution, envMapping,
             timer, out, resp, reply, dnsLookups, hostsReads, outboundCalls>>

vars == <<req, dnsMappings, pc, hostname, resolvedUrl, customResolution, envMapping,
          timer, out, resp, reply, dnsLookups, hostsReads, outboundCalls, others>>

NoOut ==
    [state |-> "none", url |-> <<>>, method |-> <<>>, headers |-> NoHeaders,
     body |-> Undefined, transport |-> "none", rejectUnauthorized |-> TRUE,
     ca |-> Undefined, error |-> ""]

NoResp ==
    [status |-> 0, statusText |-> "", headers |-> NoHeaders, body |-> <<>>,
     url |-> <<>>, redirected |-> FALSE, buffered |-> FALSE, first |-> 0]

NoReply ==
    [kind |-> "none", http |-> 0, error |-> "", status |-> -1, statusText |-> "",
     headers |-> NoHeaders, body |-> <<>>, url |-> <<>>, redirected |-> FALSE]

\* NextResponse.json({ error: msg }, { status: http })
ErrorReply(http, msg) ==
    [kind |-> "error", http |-> http, error |-> msg, status |-> -1, statusText |-> "",
     headers |-> NoHeaders, body |-> <<>>, url |-> <<>>, redirected |-> FALSE]

\* NextResponse.json(<NormalizedResponse>, { status: http })
Normalized(http, status, statusText, headers, body, url, redirected) ==
    [kind |-> "normalized", http |-> http, error |-> "", status |-> status,
     statusText |-> statusText, headers |-> headers, body |-> body, url |-> url,
     redirected |-> redirected]

TimeoutReply(url) ==
    Normalized(200, 0, "Request Timeout", NoHeaders,
               <<"Request timed out after 30 seconds">>, url, FALSE)

NetworkErrorReply(url, message) ==
    Normalized(200, 0, "Network Error", NoHeaders,
               <<"Network error: ", message>>, url, FALSE)

\* ServerErrorReply dropping the fault's message
ServerErrorReplyNoMessage(message) ==
    Normalized(500, 0, "Server Error", NoHeaders, <<"Unknown server error occurred">>,
               <<>>, FALSE)

ServerErrorReply(message) ==
    Normalized(500, 0, "Server Error", NoHeaders, <<message>>, <<>>, FALSE)

\* the handler has been entered with one of <payloads>; nothing has run yet
Entered(payloads) ==
    /\ req \in payloads
    /\ dnsMappings \in DnsMappingValues
    /\ pc = "start"
    /\ hostname = <<>>
    /\ resolvedUrl = <<>>
    /\ customResolution = FALSE
    /\ envMapping = NoAddr
    /\ timer = "unset"
    /\ out = NoOut
    /\ resp = NoResp
    /\ reply = NoReply
    /\ dnsLookups = 0
    /\ hostsReads = 0
    /\ outboundCalls = 0

\* no second invocation exists
NoPeer == [pc |-> "none"]

\* the history table is empty and the route has not been called
StoreIdle ==
    /\ historyTable = {}
    /\ historySaved = {}
    /\ historyReply = [kind |-> "none", http |-> 0, items |-> <<>>, limit |-> 0]

\* useState<ResponseData | null>(null)
Null == [t |-> "null", s |-> <<>>]

\* useState<RequestData>({ method: "GET", url: "", ..., insecureSSL: false })
InitialRequest ==
    [method |-> <<"G","E","T">>, url |-> <<>>,
     headers |-> <<[key |-> <<>>, value |-> <<>>, enabled |-> TRUE]>>,
     body |-> <<>>, bodyType |-> "json", insecureSSL |-> FALSE]

\* nothing awaited yet
NoData == [how |-> "none", data |-> NoReply, message |-> ""]

\* the page with <stored> as its history: nothing sent, nothing loading
PageIdleWith(stored) ==
    /\ uiPc = "idle"
    /\ uiRequest = InitialRequest
    /\ uiLoading = FALSE
    /\ uiResponse = Null
    /\ uiHistory \in stored
    /\ localStorage = uiHistory
    /\ uiData = NoData
    /\ uiBefore = <<>>
    /\ uiSends = 0

\* the page as first rendered, nothing in localStorage
PageIdle == PageIdleWith({<<>>})

\* the table collection_requests is empty and its routes have not been called
CatalogIdle ==
    /\ requestsTable = {}
    /\ requestsReply = [kind |-> "none", http |-> 0, requests |-> <<>>]

\* useState<HistoryItem[]>([]), no call of saveHistoryItem made
HookIdle ==
    /\ hookHistory = <<>>
    /\ hookCalls = {}

Init ==
    /\ Entered({BadPayload} \cup Payloads)
    /\ peer = NoPeer
    /\ StoreIdle
    /\ PageIdle
    /\ CatalogIdle
    /\ HookIdle

\* return <r> from the handler
Return(r) == reply' = r /\ pc' = "done"

\* PreflightError without the new URL(url) check
PreflightErrorNoFormatCheck(r) ==
    IF ~r.jsonOk THEN "Invalid JSON in request body"
    ELSE IF ~Truthy(r.url) THEN "URL is required"
    ELSE IF ~Truthy(r.method) THEN "HTTP method is required"
    ELSE "none"

\* The validation that precedes the first await after request.json()
PreflightError(r) ==
    IF ~r.jsonOk THEN "Invalid JSON in request body"
    ELSE IF ~Truthy(r.url) THEN "URL is required"
    ELSE IF ~Truthy(r.method) THEN "HTTP method is required"
    ELSE IF ~ParseURL(r.url.s).ok THEN "Invalid URL format"
    ELSE "none"

\* request.json() settles; the handler runs up to the first dns lookup
Start ==
    /\ pc = "start"
    /\ IF PreflightError(req) # "none"
       THEN /\ Return(ErrorReply(400, PreflightError(req)))
            /\ UNCHANGED <<hostname, resolvedUrl>>
       ELSE /\ hostname' = ParseURL(req.url.s).hostname
            /\ resolvedUrl' = req.url.s
            /\ pc' = IF isDirectIP(hostname') THEN "prepare" ELSE "dns1"
            /\ UNCHANGED reply
    /\ UNCHANGED <<others, req, dnsMappings, customResolution, envMapping, timer, out, resp,
                   dnsLookups, hostsReads, outboundCalls>>

\* await dnsLookup(hostname, { family: 0 }) settles
DnsLookupDualStack(ok) ==
    /\ pc = "dns1"
    /\ dnsLookups' = dnsLookups + 1
    /\ pc' = IF ok THEN "prepare" ELSE "dns2"
    /\ UNCHANGED <<others, req, dnsMappings, hostname, resolvedUrl, customResolution, envMapping,
                   timer, out, resp, reply, hostsReads, outboundCalls>>

\* await dnsLookup(hostname, { family: 4 }) settles
DnsLookupIPv4(ok) ==
    /\ pc = "dns2"
    /\ dnsLookups' = dnsLookups + 1
    /\ pc' = IF ok THEN "prepare" ELSE "dns3"
    /\ UNCHANGED <<others, req, dnsMappings, hostname, resolvedUrl, customResolution, envMapping,
                   timer, out, resp, reply, hostsReads, outboundCalls>>

\* await lookup(hostname) settles; on failure the static table is consulted
\* and the read of /etc/hosts is started
DnsLookupFallback(ok) ==
    /\ pc = "dns3"
    /\ dnsLookups' = dnsLookups + 1
    /\ IF ok
       THEN pc' = "prepare" /\ UNCHANGED <<envMapping, hostsReads>>
       ELSE /\ envMapping' = getEnvDnsMapping(dnsMappings, hostname)
            /\ hostsReads' = hostsReads + 1
            /\ pc' = "hosts"
    /\ UNCHANGED <<others, req, dnsMappings, hostname, resolvedUrl, customResolution,
                   timer, out, resp, reply, outboundCalls>>

\* ReadHosts treating an unresolvable hostname as an error
ReadHostsGate(readable) ==
    /\ pc = "hosts"
    /\ LET hostsEntry == checkEtcHosts(readable, HostsContent, hostname)
       IN  IF AddrTruthy(envMapping)
           THEN /\ resolvedUrl' = replace(req.url.s, hostname, envMapping.ip)
                /\ customResolution' = TRUE
                /\ pc' = "prepare"
                /\ UNCHANGED reply
           ELSE IF AddrTruthy(hostsEntry)
           THEN /\ resolvedUrl' = replace(req.url.s, hostname, hostsEntry.ip)
                /\ customResolution' = TRUE
                /\ pc' = "prepare"
                /\ UNCHANGED reply
           ELSE /\ Return(NetworkErrorReply(req.url.s, "getaddrinfo ENOTFOUND"))
                /\ UNCHANGED <<resolvedUrl, customResolution>>
    /\ UNCHANGED <<others, req, dnsMappings, hostname, envMapping, timer, out, resp,
                   dnsLookups, hostsReads, outboundCalls>>

\* await checkEtcHosts(hostname) settles; the address is substituted
ReadHosts(readable) ==
    /\ pc = "hosts"
    /\ LET hostsEntry == checkEtcHosts(readable, HostsContent, hostname)
       IN  IF AddrTruthy(envMapping)
           THEN /\ resolvedUrl' = replace(req.url.s, hostname, envMapping.ip)
                /\ customResolution' = TRUE
           ELSE IF AddrTruthy(hostsEntry)
           THEN /\ resolvedUrl' = replace(req.url.s, hostname, hostsEntry.ip)
                /\ customResolution' = TRUE
           ELSE UNCHANGED <<resolvedUrl, customResolution>>
    /\ pc' = "prepare"
    /\ UNCHANGED <<others, req, dnsMappings, hostname, envMapping, timer, out, resp, reply,
                   dnsLookups, hostsReads, outboundCalls>>

(***************************************************************************)
(* Building and issuing the outbound call                                  *)
(***************************************************************************)
HttpsPrefix == <<"h","t","t","p","s",":","/","/">>

\* IsValidMethod without the upper-casing
IsValidMethodCaseSensitive(m) == m \in validMethods

\* validMethods.includes(method.toUpperCase())
IsValidMethod(m) == toUpperCase(m) \in validMethods

\* CarriesBody comparing the method as the caller wrote it
CarriesBodyCaseSensitive(r) == Truthy(r.body) /\ r.method.s \notin bodylessMethods

\* body && !["GET", "HEAD"].includes(method.toUpperCase())
CarriesBody(r) == Truthy(r.body) /\ toUpperCase(r.method.s) \notin bodylessMethods

\* requestBody: the string body, or JSON.stringify of an object body
RequestBody(r) ==
    IF CarriesBody(r) /\ r.body.t \in {"string", "object"} THEN Str(r.body.s) ELSE Undefined

\* requestHeaders as handed to the transport
RequestHeaders(r, custom, host) ==
    LET merged   == Spread(DefaultHeaders, r.headers)
        withHost == IF custom THEN Spread(merged, [k \in {"Host"} |-> host]) ELSE merged
    IN  IF /\ CarriesBody(r)
           /\ r.body.t = "object"
           /\ ~HeaderTruthy(withHost, "Content-Type")
           /\ ~HeaderTruthy(withHost, "content-type")
        THEN Spread(withHost, [k \in {"Content-Type"} |-> <<"application/json">>])
        ELSE withHost

\* makeRequest: fetch unless insecureSSL is set and the url is https
\* UsesFetch without the test of the scheme
UsesFetchIgnoresScheme(insecureSSL, url) == ~insecureSSL

UsesFetch(insecureSSL, url) == ~insecureSSL \/ ~startsWith(url, HttpsPrefix)

\* the call makeRequest starts for (url, options)
makeRequest(url, method, headers, body, insecureSSL) ==
    [state |-> "inflight", url |-> url, method |-> method, headers |-> headers,
     body |-> body,
     transport |-> IF UsesFetch(insecureSSL, url) THEN "fetch" ELSE "https",
     \* fetch verifies against the system store; requestOptions of the https
     \* transport sets rejectUnauthorized: false; neither is given a ca
     rejectUnauthorized |-> UsesFetch(insecureSSL, url),
     ca |-> Undefined, error |-> ""]

\* From the end of resolution to the await of makeRequest: method validation,
\* headers, body, the 30 s timer and the call itself
Prepare ==
    /\ pc = "prepare"
    /\ IF req.method.t # "string"
       THEN \* method.toUpperCase is not a function: caught by the outer catch
            /\ Return(ServerErrorReply("method.toUpperCase is not a function"))
            /\ UNCHANGED <<timer, out, outboundCalls>>
       ELSE IF ~IsValidMethod(req.method.s)
       THEN /\ Return(ErrorReply(400, "Invalid HTTP method"))
            /\ UNCHANGED <<timer, out, outboundCalls>>
       ELSE IF /\ customResolution
               /\ includes(resolvedUrl, <<":", "/", "/">>)
               /\ ~ParseURL(resolvedUrl).ok
       THEN \* new URL(resolvedUrl) in the log line throws inside the inner try
            /\ Return(NetworkErrorReply(req.url.s, "Invalid URL"))
            /\ timer' = "cleared"
            /\ UNCHANGED <<out, outboundCalls>>
       ELSE /\ timer' = "armed"
            /\ out' = makeRequest(resolvedUrl, toUpperCase(req.method.s),
                                  RequestHeaders(req, customResolution, hostname),
                                  RequestBody(req), req.insecureSSL)
            /\ outboundCalls' = outboundCalls + 1
            /\ pc' = "inflight"
            /\ UNCHANGED reply
    /\ UNCHANGED <<others, req, dnsMappings, hostname, resolvedUrl, customResolution, envMapping,
                   resp, dnsLookups, hostsReads>>

\* the error messages a transport can reject with
ErrorsOf(transport) ==
    IF transport = "fetch" THEN {"fetch failed"}
    ELSE {"connect ECONNREFUSED", "socket hang up"}

\* makeRequest resolves: fetch at the response head, the https transport once
\* the whole body is buffered ('end'); the handler clears the timer
\* the Response makeRequest resolves with when the remote answers r to the
\* call o: fetch (redirect: "follow") answers a redirect by fetching its
\* location and resolves with what is found there; the https transport
\* resolves with the first response, url being the dialed URL and redirected
\* false.  first is the status of the remote's first answer.
ResponseOf(o, r) ==
    IF o.transport = "fetch" /\ r.status \in RedirectStatuses
       /\ "location" \in DOMAIN r.headers
    THEN [status |-> RespText.status, statusText |-> RespText.statusText,
          headers |-> RespText.headers, body |-> RespText.body,
          url |-> r.headers["location"], redirected |-> TRUE,
          buffered |-> FALSE, first |-> r.status]
    ELSE [status |-> r.status, statusText |-> r.statusText, headers |-> r.headers,
          body |-> r.body, url |-> o.url, redirected |-> FALSE,
          buffered |-> (o.transport = "https"), first |-> r.status]

\* TransportResponds without the clearTimeout after the response arrived
TransportRespondsKeepsTimer(r) ==
    /\ pc = "inflight"
    /\ resp' = ResponseOf(out, r)
    /\ out' = [out EXCEPT !.state = "responded"]
    /\ timer' = timer
    /\ pc' = "body"
    /\ UNCHANGED <<others, req, dnsMappings, hostname, resolvedUrl, customResolution, envMapping,
                   reply, dnsLookups, hostsReads, outboundCalls>>

\* await makeRequest(...) resolves; clearTimeout(timeoutId)
TransportResponds(r) ==
    /\ pc = "inflight"
    /\ resp' = ResponseOf(out, r)
    /\ out' = [out EXCEPT !.state = "responded"]
    /\ timer' = "cleared"
    /\ pc' = "body"
    /\ UNCHANGED <<others, req, dnsMappings, hostname, resolvedUrl, customResolution, envMapping,
                   reply, dnsLookups, hostsReads, outboundCalls>>

\* the name of the error the catch block sees when the signal aborts
AbortErrorName(transport) == IF transport = "fetch" THEN "AbortError" ELSE "Error"

\* CatchFetchError echoing the dialed URL instead of the caller's
CatchFetchErrorDialedUrl(name, message) ==
    IF name = "AbortError" THEN TimeoutReply(resolvedUrl)
    ELSE NetworkErrorReply(resolvedUrl, message)

\* the catch (fetchError) block for an Error of the given name and message
CatchFetchError(name, message) ==
    IF name = "AbortError" THEN TimeoutReply(req.url.s)
    ELSE NetworkErrorReply(req.url.s, message)

\* TransportFails issuing the call a second time before giving up
TransportFailsRetry(message) ==
    /\ pc = "inflight"
    /\ message \in ErrorsOf(out.transport)
    /\ IF outboundCalls < 2
       THEN /\ outboundCalls' = outboundCalls + 1
            /\ UNCHANGED <<out, timer, reply, pc>>
       ELSE /\ out' = [out EXCEPT !.state = "failed", !.error = message]
            /\ timer' = "cleared"
            /\ Return(CatchFetchError("Error", message))
            /\ UNCHANGED outboundCalls
    /\ UNCHANGED <<others, req, dnsMappings, hostname, resolvedUrl, customResolution, envMapping,
                   resp, dnsLookups, hostsReads>>

\* makeRequest rejects with an error other than an abort
TransportFails(message) ==
    /\ pc = "inflight"
    /\ message \in ErrorsOf(out.transport)
    /\ out' = [out EXCEPT !.state = "failed", !.error = message]
    /\ timer' = "cleared"
    /\ Return(CatchFetchError("Error", message))
    /\ UNCHANGED <<others, req, dnsMappings, hostname, resolvedUrl, customResolution, envMapping,
                   resp, dnsLookups, hostsReads, outboundCalls>>

\* the 30 s timer fires: controller.abort() cancels the call in flight
TimerFiresSharedController ==
    /\ timer = "armed"
    /\ pc = "inflight"
    /\ out' = [out EXCEPT !.state = "aborted"]
    /\ timer' = "fired"
    /\ Return(CatchFetchError(AbortErrorName(out.transport),
                              IF out.transport = "fetch"
                              THEN "This operation was aborted"
                              ELSE "Request aborted"))
    /\ peer' = IF peer.pc = "inflight"
               THEN [peer EXCEPT !.out.state = "aborted", !.timer = "fired", !.pc = "done",
                                 !.reply = CatchFetchError(AbortErrorName(peer.out.transport),
                                                           "This operation was aborted")]
               ELSE peer
    /\ UNCHANGED <<store, page, catalog, hook, localStorage, req, dnsMappings, hostname, resolvedUrl, customResolution, envMapping,
                   resp, dnsLookups, hostsReads, outboundCalls>>

TimerFires ==
    /\ timer = "armed"
    /\ pc = "inflight"
    /\ out' = [out EXCEPT !.state = "aborted"]
    /\ timer' = "fired"
    /\ Return(CatchFetchError(AbortErrorName(out.transport),
                              IF out.transport = "fetch"
                              THEN "This operation was aborted"
                              ELSE "Request aborted"))
    /\ UNCHANGED <<others, req, dnsMappings, hostname, resolvedUrl, customResolution, envMapping,
                   resp, dnsLookups, hostsReads, outboundCalls>>

\* response.headers.get("content-type") || ""
ContentType(headers) ==
    IF "content-type" \in DOMAIN headers THEN headers["content-type"] ELSE <<>>

\* The body-reading block: the reply for a fully received body text
NormalizeBody(r) ==
    IF includes(ContentType(r.headers), <<"application/json">>)
    THEN IF JsonParse(r.body).ok
         THEN Normalized(200, r.status, r.statusText, r.headers,
                         JsonStringify2(JsonParse(r.body)), r.url, r.redirected)
         ELSE \* response.json() consumed the body: response.text() throws
              CatchFetchError("TypeError", "Body is unusable: Body has already been read")
    ELSE Normalized(200, r.status, r.statusText, r.headers, r.body, r.url, r.redirected)

\* await response.json() / response.text() settles
ReadBody(received) ==
    /\ pc = "body"
    /\ received \/ ~resp.buffered
    /\ Return(IF received THEN NormalizeBody(resp)
              ELSE CatchFetchError("TypeError", "terminated"))
    /\ out' = IF received THEN [out EXCEPT !.state = "completed"]
              ELSE [out EXCEPT !.state = "failed", !.error = "terminated"]
    /\ UNCHANGED <<others, req, dnsMappings, hostname, resolvedUrl, customResolution, envMapping,
                   timer, resp, dnsLookups, hostsReads, outboundCalls>>

Next ==
    \/ Start
    \/ \E ok \in BOOLEAN : DnsLookupDualStack(ok)
    \/ \E ok \in BOOLEAN : DnsLookupIPv4(ok)
    \/ \E ok \in BOOLEAN : DnsLookupFallback(ok)
    \/ \E readable \in BOOLEAN : ReadHosts(readable)
    \/ Prepare
    \/ \E r \in RemoteResponses : TransportResponds(r)
    \/ \E m \in TransportErrors : TransportFails(m)
    \/ TimerFires
    \/ \E received \in BOOLEAN : ReadBody(received)

Spec == Init /\ [][Next]_vars

(***************************************************************************)
(* Two invocations of the handler                                          *)
(*                                                                         *)
(* Each call of POST has its own locals, its own AbortController and its   *)
(* own timer.  The variables above are the invocation that is running;     *)
(* peer is another one, suspended at an await.  The event loop resumes a   *)
(* suspended invocation only when the running one reaches an await or      *)
(* returns, and every action above ends at such a point.                   *)
(***************************************************************************)
\* the locals of the running invocation
Locals ==
    [req |-> req, pc |-> pc, hostname |-> hostname, resolvedUrl |-> resolvedUrl,
     customResolution |-> customResolution, envMapping |-> envMapping, timer |-> timer,
     out |-> out, resp |-> resp, reply |-> reply, dnsLookups |-> dnsLookups,
     hostsReads |-> hostsReads, outboundCalls |-> outboundCalls]

\* the locals of an invocation entered with payload <p>
EnteredWith(p) ==
    [req |-> p, pc |-> "start", hostname |-> <<>>, resolvedUrl |-> <<>>,
     customResolution |-> FALSE, envMapping |-> NoAddr, timer |-> "unset",
     out |-> NoOut, resp |-> NoResp, reply |-> NoReply, dnsLookups |-> 0,
     hostsReads |-> 0, outboundCalls |-> 0]

\* the event loop suspends the running invocation and resumes the other one
Swap ==
    /\ peer.pc # "none"
    /\ peer' = Locals @@ [id |-> 3 - peer.id]
    /\ req' = peer.req
    /\ pc' = peer.pc
    /\ hostname' = peer.hostname
    /\ resolvedUrl' = peer.resolvedUrl
    /\ customResolution' = peer.customResolution
    /\ envMapping' = peer.envMapping
    /\ timer' = peer.timer
    /\ out' = peer.out
    /\ resp' = peer.resp
    /\ reply' = peer.reply
    /\ dnsLookups' = peer.dnsLookups
    /\ hostsReads' = peer.hostsReads
    /\ outboundCalls' = peer.outboundCalls
    /\ UNCHANGED <<dnsMappings, store, page, catalog, hook, localStorage>>

\* the requests of the two invocations: a plain GET that goes through fetch
\* and a POST with verification disabled that goes through node:https
PairPayloads ==
    {p \in Payloads :
        /\ p.headers = NoHeaders
        /\ p.caCertificate = Undefined
        /\ \/ /\ p.url = UrlHttp /\ p.method = Str(<<"G","E","T">>)
              /\ p.body = Undefined /\ ~p.insecureSSL
           \/ /\ p.url = UrlHttps /\ p.method = Str(<<"P","O","S","T">>)
              /\ p.body = Str(<<"h","i">>) /\ p.insecureSSL}

InitPair ==
    /\ Entered(PairPayloads)
    /\ peer \in {EnteredWith(p) @@ [id |-> 2] : p \in PairPayloads}
    /\ StoreIdle
    /\ PageIdle
    /\ CatalogIdle
    /\ HookIdle

NextPair ==
    \/ Next
    \/ Swap

PairSpec == InitPair /\ [][NextPair]_vars

(***************************************************************************)
(* The history store: the table "history" and its route                    *)
(*                                                                         *)
(* Scalar values are the records [t, s] used above, numbers with their     *)
(* decimal text; arrays and objects are [t, kids], an object's kids being  *)
(* its members [k, v] in insertion order.                                  *)
(***************************************************************************)
Number(digits) == [t |-> "number", s |-> digits]

Bool(b) == [t |-> "boolean", s |-> IF b THEN <<"t","r","u","e">> ELSE <<"f","a","l","s","e">>]

Array(items) == [t |-> "array", kids |-> items]

Object(members) == [t |-> "object", kids |-> members]

\* the falsy values: undefined, null, "", false, 0
Falsy(a) ==
    \/ a.t \in {"undefined", "null"}
    \/ a.t = "string" /\ a.s = <<>>
    \/ a.t = "boolean" /\ a.s = <<"f","a","l","s","e">>
    \/ a.t = "number" /\ a.s = <<"0">>

\* a || b
Or(a, b) == IF Falsy(a) THEN b ELSE a

\* the text of a JSON string literal: quote and backslash are escaped
RECURSIVE Escape(_)
Escape(s) ==
    IF s = <<>> THEN <<>>
    ELSE (IF s[1] \in {"\"", "\\"} THEN <<"\\", s[1]>> ELSE <<s[1]>>) \o Escape(Tail(s))

Quote(s) == <<"\"">> \o Escape(s) \o <<"\"">>

\* JSON.stringify(v), no indentation
RECURSIVE JSONstringify(_)
RECURSIVE StringifyElements(_)
RECURSIVE StringifyMembers(_)
JSONstringify(v) ==
    CASE v.t = "string"  -> Quote(v.s)
      [] v.t = "array"   -> <<"[">> \o StringifyElements(v.kids) \o <<"]">>
      [] v.t = "object"  -> <<"{">> \o StringifyMembers(v.kids) \o <<"}">>
      [] v.t = "null"    -> <<"n","u","l","l">>
      [] OTHER           -> v.s

StringifyElements(items) ==
    IF items = <<>> THEN <<>>
    ELSE JSONstringify(items[1])
         \o (IF Len(items) > 1 THEN <<",">> \o StringifyElements(Tail(items)) ELSE <<>>)

StringifyMembers(members) ==
    IF members = <<>> THEN <<>>
    ELSE Quote(members[1].k) \o <<":">> \o JSONstringify(members[1].v)
         \o (IF Len(members) > 1 THEN <<",">> \o StringifyMembers(Tail(members)) ELSE <<>>)

\* a parse result: the value and the index after it, or a syntax error
Parsed(v, next) == [ok |-> TRUE, v |-> v, next |-> next]

SyntaxError == [ok |-> FALSE, v |-> Null, next |-> 0]

\* the characters of a string literal from index i up to its closing quote
RECURSIVE ScanString(_, _, _)
ScanString(s, i, acc) ==
    IF i > Len(s) THEN SyntaxError
    ELSE IF s[i] = "\"" THEN Parsed(Str(acc), i + 1)
    ELSE IF s[i] = "\\"
         THEN IF i + 1 <= Len(s) /\ s[i + 1] \in {"\"", "\\"}
              THEN ScanString(s, i + 2, Append(acc, s[i + 1]))
              ELSE SyntaxError
    ELSE ScanString(s, i + 1, Append(acc, s[i]))

\* whether <word> is the text of s from index i
At(s, i, word) == i + Len(word) - 1 <= Len(s) /\ SubSeq(s, i, i + Len(word) - 1) = word

\* JSON.parse of the texts JSON.stringify writes (no white space, no numbers
\* inside: the columns hold arrays and objects of strings and booleans)
RECURSIVE ParseValue(_, _)
RECURSIVE ParseElements(_, _, _)
RECURSIVE ParseMembers(_, _, _)
ParseValue(s, i) ==
    IF i > Len(s) THEN SyntaxError
    ELSE IF s[i] = "\"" THEN ScanString(s, i + 1, <<>>)
    ELSE IF At(s, i, <<"t","r","u","e">>) THEN Parsed(Bool(TRUE), i + 4)
    ELSE IF At(s, i, <<"f","a","l","s","e">>) THEN Parsed(Bool(FALSE), i + 5)
    ELSE IF At(s, i, <<"n","u","l","l">>) THEN Parsed(Null, i + 4)
    ELSE IF At(s, i, <<"[", "]">>) THEN Parsed(Array(<<>>), i + 2)
    ELSE IF At(s, i, <<"{", "}">>) THEN Parsed(Object(<<>>), i + 2)
    ELSE IF s[i] = "[" THEN ParseElements(s, i + 1, <<>>)
    ELSE IF s[i] = "{" THEN ParseMembers(s, i + 1, <<>>)
    ELSE SyntaxError

ParseElements(s, i, acc) ==
    LET e == ParseValue(s, i) IN
    IF ~e.ok \/ e.next > Len(s) THEN SyntaxError
    ELSE IF s[e.next] = "," THEN ParseElements(s, e.next + 1, Append(acc, e.v))
    ELSE IF s[e.next] = "]" THEN Parsed(Array(Append(acc, e.v)), e.next + 1)
    ELSE SyntaxError

ParseMembers(s, i, acc) ==
    LET k == IF i <= Len(s) /\ s[i] = "\"" THEN ScanString(s, i + 1, <<>>) ELSE SyntaxError
        e == IF k.ok /\ k.next <= Len(s) /\ s[k.next] = ":"
             THEN ParseValue(s, k.next + 1) ELSE SyntaxError
    IN
    IF ~e.ok \/ e.next > Len(s) THEN SyntaxError
    ELSE IF s[e.next] = ","
         THEN ParseMembers(s, e.next + 1, Append(acc, [k |-> k.v.s, v |-> e.v]))
    ELSE IF s[e.next] = "}"
         THEN Parsed(Object(Append(acc, [k |-> k.v.s, v |-> e.v])), e.next + 1)
    ELSE SyntaxError

\* JSON.parse(s): the whole text must be one value
JSONparse(s) ==
    LET r == ParseValue(s, 1) IN
    IF r.ok /\ r.next = Len(s) + 1 THEN r ELSE SyntaxError

\* one element of HttpRequest.headers
HeaderRow(key, value, enabled) ==
    Object(<<[k |-> <<"k","e","y">>, v |-> Str(key)],
             [k |-> <<"v","a","l","u","e">>, v |-> Str(value)],
             [k |-> <<"e","n","a","b","l","e","d">>, v |-> Bool(enabled)]>>)

\* HttpRequest values: a verified GET without headers and a POST with
\* verification disabled whose header value holds a quote and a backslash
HistoryRequests ==
    {[method |-> Str(<<"G","E","T">>), url |-> UrlHttp, headers |-> Array(<<>>),
      body |-> Str(<<>>), bodyType |-> Str(<<"j","s","o","n">>),
      insecureSSL |-> Bool(FALSE), caCertificate |-> Undefined],
     [method |-> Str(<<"P","O","S","T">>), url |-> UrlHttps,
      headers |-> Array(<<HeaderRow(<<"a">>, <<"\"", "b", "\\">>, TRUE),
                          HeaderRow(<<>>, <<>>, FALSE)>>),
      body |-> Str(<<"h","i">>), bodyType |-> Str(<<"t","e","x","t">>),
      insecureSSL |-> Bool(TRUE), caCertificate |-> Undefined]}

\* HttpResponse values as sendRequest builds them: a redirected success, a
\* plain success, a failed call (no url, no redirected) and the card made
\* from an { error } payload, which has no status
HistoryResponses ==
    {[status |-> Number(<<"2","0","0">>), statusText |-> Str(<<"O","K">>),
      headers |-> Object(<<[k |-> <<"x">>, v |-> Str(<<"y">>)]>>), body |-> Str(<<"o","k">>),
      time |-> 5, size |-> 2, url |-> UrlHttps, redirected |-> Bool(TRUE)],
     [status |-> Number(<<"2","0","0">>), statusText |-> Str(<<"O","K">>),
      headers |-> Object(<<>>), body |-> Str(<<>>),
      time |-> 5, size |-> 0, url |-> UrlHttp, redirected |-> Bool(FALSE)],
     [status |-> Number(<<"0">>), statusText |-> Str(<<"E","r","r","o","r">>),
      headers |-> Object(<<>>), body |-> Str(<<"b","o","o","m">>),
      time |-> 5, size |-> 0, url |-> Undefined, redirected |-> Undefined],
     [status |-> Undefined, statusText |-> Undefined,
      headers |-> Undefined, body |-> Undefined,
      time |-> 5, size |-> 9, url |-> Undefined, redirected |-> Undefined]}

HistoryIds == {"i1", "i2"}

HistoryTimestamps == {1, 2}

\* the HistoryItem values a client posts
HistoryItems ==
    [id : HistoryIds, request : HistoryRequests, response : HistoryResponses,
     timestamp : HistoryTimestamps, name : {Str(<<"G","E","T"," ","/">>)}]

convertToDbHistoryDropsFlag(item) ==
    [method |-> item.request.method,
     url |-> item.request.url,
     headers |-> Str(JSONstringify(Or(item.request.headers, Array(<<>>)))),
     body |-> Or(item.request.body, Str(<<>>)),
     bodyType |-> Or(item.request.bodyType, Str(<<"n","o","n","e">>)),
     insecureSSL |-> 0,
     caCertificate |-> item.request.caCertificate,
     responseStatus |-> item.response.status,
     responseStatusText |-> item.response.statusText,
     responseHeaders |-> Str(JSONstringify(Or(item.response.headers, Object(<<>>)))),
     responseBody |-> Or(item.response.body, Str(<<>>)),
     responseTime |-> item.response.time,
     responseSize |-> item.response.size,
     responseUrl |-> item.response.url,
     redirected |-> IF Falsy(item.response.redirected) THEN 0 ELSE 1,
     timestamp |-> item.timestamp,
     name |-> item.name]

convertToDbHistory(item) ==
    [method |-> item.request.method,
     url |-> item.request.url,
     headers |-> Str(JSONstringify(Or(item.request.headers, Array(<<>>)))),
     body |-> Or(item.request.body, Str(<<>>)),
     bodyType |-> Or(item.request.bodyType, Str(<<"n","o","n","e">>)),
     insecureSSL |-> IF Falsy(item.request.insecureSSL) THEN 0 ELSE 1,
     caCertificate |-> item.request.caCertificate,
     responseStatus |-> item.response.status,
     responseStatusText |-> item.response.statusText,
     responseHeaders |-> Str(JSONstringify(Or(item.response.headers, Object(<<>>)))),
     responseBody |-> Or(item.response.body, Str(<<>>)),
     responseTime |-> item.response.time,
     responseSize |-> item.response.size,
     responseUrl |-> item.response.url,
     redirected |-> IF Falsy(item.response.redirected) THEN 0 ELSE 1,
     timestamp |-> item.timestamp,
     name |-> item.name]

\* a bound parameter: undefined is stored as NULL
Bind(v) == IF v.t = "undefined" THEN Null ELSE v

\* the row INSERT INTO history ... VALUES (?, ...) writes
Row(id, dbItem) ==
    [id |-> id,
     method |-> Bind(dbItem.method),
     url |-> Bind(dbItem.url),
     headers |-> Bind(dbItem.headers),
     body |-> Bind(dbItem.body),
     bodyType |-> Bind(dbItem.bodyType),
     insecureSSL |-> dbItem.insecureSSL,
     caCertificate |-> Bind(dbItem.caCertificate),
     responseStatus |-> Bind(dbItem.responseStatus),
     responseStatusText |-> Bind(dbItem.responseStatusText),
     responseHeaders |-> Bind(dbItem.responseHeaders),
     responseBody |-> Bind(dbItem.responseBody),
     responseTime |-> dbItem.responseTime,
     responseSize |-> dbItem.responseSize,
     responseUrl |-> Bind(dbItem.responseUrl),
     redirected |-> dbItem.redirected,
     timestamp |-> dbItem.timestamp,
     name |-> Bind(dbItem.name)]

\* the table's constraints: id is the primary key, and the NOT NULL columns
NotNullColumns(row) ==
    {row.method, row.url, row.headers, row.body, row.bodyType, row.responseStatus,
     row.responseStatusText, row.responseHeaders, row.responseBody}

Insertable(table, row) ==
    /\ \A r \in table : r.id # row.id
    /\ \A v \in NotNullColumns(row) : v.t # "null"

convertFromDbHistory(dbItem) ==
    [id |-> dbItem.id,
     request |-> [method |-> dbItem.method,
                  url |-> dbItem.url,
                  headers |-> JSONparse(dbItem.headers.s).v,
                  body |-> dbItem.body,
                  bodyType |-> dbItem.bodyType,
                  insecureSSL |-> Bool(dbItem.insecureSSL = 1),
                  caCertificate |-> dbItem.caCertificate],
     response |-> [status |-> dbItem.responseStatus,
                   statusText |-> dbItem.responseStatusText,
                   headers |-> JSONparse(dbItem.responseHeaders.s).v,
                   body |-> dbItem.responseBody,
                   time |-> dbItem.responseTime,
                   size |-> dbItem.responseSize,
                   url |-> dbItem.responseUrl,
                   redirected |-> Bool(dbItem.redirected = 1)],
     timestamp |-> dbItem.timestamp,
     name |-> dbItem.name]

\* NextResponse.json(...) of the history route
HistoryReply(kind, http, items, limit) ==
    [kind |-> kind, http |-> http, items |-> items, limit |-> limit]

\* parseInt(searchParams.get('limit') || '100') when the query has no limit
DefaultLimit == 100

\* the values of the limit query parameter
Limits == {1, DefaultLimit}

\* SELECT * FROM history ORDER BY timestamp DESC LIMIT ?: the results the
\* statement may give (rows of equal timestamp come in either order)
getHistory(table, limit) ==
    LET n == IF Cardinality(table) < limit THEN Cardinality(table) ELSE limit IN
    {rows \in [1..n -> table] :
        /\ \A i, j \in 1..n : i < j => rows[i] # rows[j]
        /\ \A i, j \in 1..n : i < j => rows[i].timestamp >= rows[j].timestamp
        /\ \A r \in table : (\A i \in 1..n : rows[i] # r) =>
              \A i \in 1..n : rows[i].timestamp >= r.timestamp}

\* POST /api/history
HistoryPOST(item) ==
    LET row == Row(item.id, convertToDbHistory(item)) IN
    /\ IF Insertable(historyTable, row)
       THEN /\ historyTable' = historyTable \cup {row}
            /\ historySaved' = historySaved \cup {item}
            /\ historyReply' = HistoryReply("success", 200, <<>>, 0)
       ELSE /\ historyReply' = HistoryReply("Failed to save history", 500, <<>>, 0)
            /\ UNCHANGED <<historyTable, historySaved>>
    /\ UNCHANGED <<gateway, peer, page, catalog, hook, localStorage>>

\* GET /api/history[?limit=n]
HistoryGET(limit) ==
    /\ \E rows \in getHistory(historyTable, limit) :
          IF \A i \in DOMAIN rows : /\ JSONparse(rows[i].headers.s).ok
                                    /\ JSONparse(rows[i].responseHeaders.s).ok
          THEN historyReply' =
                  HistoryReply("history", 200,
                               [i \in DOMAIN rows |-> convertFromDbHistory(rows[i])], limit)
          ELSE historyReply' = HistoryReply("Failed to get history", 500, <<>>, limit)
    /\ UNCHANGED <<historyTable, historySaved>>
    /\ UNCHANGED <<gateway, peer, page, catalog, hook, localStorage>>

\* DELETE /api/history?id=<id> ("": no id parameter)
HistoryDELETE(id) ==
    /\ IF id = "all"
       THEN /\ historyTable' = {}
            /\ historySaved' = {}
            /\ historyReply' = HistoryReply("success", 200, <<>>, 0)
       ELSE IF id # ""
       THEN /\ historyTable' = {r \in historyTable : r.id # id}
            /\ historySaved' = {i \in historySaved : i.id # id}
            /\ historyReply' = HistoryReply("success", 200, <<>>, 0)
       ELSE /\ historyReply' = HistoryReply("ID parameter required", 400, <<>>, 0)
            /\ UNCHANGED <<historyTable, historySaved>>
    /\ UNCHANGED <<gateway, peer, page, catalog, hook, localStorage>>

InitHistory ==
    /\ Entered({BadPayload})
    /\ peer = NoPeer
    /\ StoreIdle
    /\ PageIdle
    /\ CatalogIdle
    /\ HookIdle

NextHistoryRoute ==
    \/ \E item \in HistoryItems : HistoryPOST(item)
    \/ \E limit \in Limits : HistoryGET(limit)
    \/ \E id \in HistoryIds \cup {"all", ""} : HistoryDELETE(id)

HistorySpec == InitHistory /\ [][NextHistoryRoute]_vars

(***************************************************************************)
(* The page component: sendRequest                                         *)
(*                                                                         *)
(* The gateway's reply is the record the gateway model returns; a member   *)
(* an { error } payload lacks reads as that record's filler (status -1).   *)
(***************************************************************************)
\* the request states the form is set to: two URLs the gateway accepts, one
\* it rejects, and one that is only white space
UiRequests ==
    {[InitialRequest EXCEPT !.url = u] : u \in {UrlHttp.s, UrlNoScheme.s, <<" ">>}}
    \cup {[method |-> <<"P","O","S","T">>, url |-> <<" ">> \o UrlHttps.s,
           headers |-> <<[key |-> <<"a">>, value |-> <<"b">>, enabled |-> TRUE],
                         [key |-> <<"c">>, value |-> <<>>, enabled |-> TRUE]>>,
           body |-> <<"h","i">>, bodyType |-> "text", insecureSSL |-> TRUE]}

\* request.headers.filter(h => h.enabled && h.key && h.value).reduce(...)
enabledHeaders(r) ==
    LET kept == SelectSeq(r.headers,
                          LAMBDA h : h.enabled /\ h.key # <<>> /\ h.value # <<>>)
    IN  [k \in {kept[i].key : i \in DOMAIN kept} |->
            kept[CHOOSE i \in DOMAIN kept :
                    /\ kept[i].key = k
                    /\ \A j \in DOMAIN kept : kept[j].key = k => j <= i].value]

\* GET, HEAD and bodyType "none" send no body
requestBody(r) ==
    IF r.method \in {<<"G","E","T">>, <<"H","E","A","D">>} \/ r.bodyType = "none"
    THEN Undefined
    ELSE Str(r.body)

\* the JSON the page posts to /api/proxy
PayloadOf(r) ==
    [jsonOk |-> TRUE, method |-> Str(r.method), url |-> Str(trim(r.url)),
     headers |-> enabledHeaders(r), body |-> requestBody(r),
     insecureSSL |-> r.insecureSSL, caCertificate |-> Undefined]

\* what the gateway may reply to the page's payload: its 400 when the payload
\* fails the checks, else a relayed response, a timeout, a network error or
\* its 500
GatewayReplies(r) ==
    LET p == PayloadOf(r) IN
    IF PreflightError(p) # "none"
    THEN {ErrorReply(400, PreflightError(p))}
    ELSE {Normalized(200, 200, "OK", NoHeaders, <<"ok">>, p.url.s, FALSE),
          TimeoutReply(p.url.s),
          NetworkErrorReply(p.url.s, "fetch failed"),
          ServerErrorReply("boom")}

\* new URL(raw).pathname for the http and https URLs the form holds (no dot
\* segments, no characters that need escaping)
Pathname(raw) ==
    LET u     == trim(raw)
        rest  == SubSeq(u, FirstOf(u, {":"}) + 1, Len(u))
        auth  == SubSeq(rest, FirstOf(rest, Range(rest) \ {"/", "\\"}), Len(rest))
        tail  == SubSeq(auth, FirstOf(auth, {"/", "\\", "?", "#"}), Len(auth))
        path  == SubSeq(tail, 1, FirstOf(tail, {"?", "#"}) - 1)
    IN  IF path = <<>> THEN <<"/">> ELSE path

\* milliseconds between startTime and the end of the call
Durations == {7}

\* const responseData: HttpResponse = { status: data.status, ... }
responseData(data, r, time) ==
    [status |-> data.status, statusText |-> data.statusText, headers |-> data.headers,
     body |-> data.body, time |-> time, size |-> Len(data.body), url |-> data.url,
     redirected |-> data.redirected,
     request |-> [method |-> r.method, url |-> r.url, headers |-> enabledHeaders(r),
                  body |-> requestBody(r)]]

\* const errorResponse: HttpResponse = { status: 0, statusText: "Error", ... }
errorResponse(message, time) ==
    [status |-> 0, statusText |-> "Error", headers |-> NoHeaders, body |-> <<message>>,
     time |-> time, size |-> 0, url |-> <<>>, redirected |-> FALSE]

\* const historyItem: HistoryItem = { id, request: { ...request }, response, timestamp, name }
historyItem(n, r, response, name) ==
    [id |-> n, request |-> r, response |-> response, timestamp |-> n, name |-> name]

\* an item the page finds in localStorage when it mounts
OldItem(i) ==
    historyItem(-i, [InitialRequest EXCEPT !.url = UrlHttp.s],
                errorResponse("Failed to fetch", 0),
                <<"G","E","T"," ">> \o UrlHttp.s \o <<" ","(","F","a","i","l","e","d",")">>)

\* the histories found in localStorage: none, 99 items, 100 items
StoredHistories == {<<>>} \cup {[i \in 1..n |-> OldItem(i)] : n \in {99, 100}}

\* useEffect(() => { if (history.length > 0) localStorage.setItem(...) }, [history]):
\* what the item holds after the history state became h
Persist(h) == IF Len(h) > 0 THEN h ELSE localStorage

\* how many earlier items prev.slice(0, 99) keeps
Kept == 99

\* setHistory's updater that leaves a failed call out
KeepLastUnlessFailed(prev, item) ==
    IF item.response.status = 0 THEN prev
    ELSE <<item>> \o SubSeq(prev, 1, IF Len(prev) < Kept THEN Len(prev) ELSE Kept)

\* (prev) => [historyItem, ...prev.slice(0, 99)]
KeepLast(prev, item) ==
    <<item>> \o SubSeq(prev, 1, IF Len(prev) < Kept THEN Len(prev) ELSE Kept)

\* the number of sends explored
MaxSends == 2

\* setRequest(r): the form is edited
UiEdit(r) ==
    /\ uiPc = "idle"
    /\ uiRequest' = r
    /\ UNCHANGED <<uiPc, uiLoading, uiResponse, uiHistory, uiData, uiBefore, uiSends>>
    /\ UNCHANGED <<gateway, peer, store, catalog, hook, localStorage>>

\* the Send button (enabled unless loading or the URL is empty) is clicked;
\* sendRequest runs up to await fetch("/api/proxy", ...)
UiSendRequest ==
    /\ uiPc = "idle"
    /\ ~uiLoading
    /\ uiRequest.url # <<>>
    /\ uiSends < MaxSends
    /\ IF trim(uiRequest.url) = <<>>
       THEN UNCHANGED <<uiPc, uiLoading, uiResponse, uiData, uiBefore, uiSends>>
       ELSE /\ uiLoading' = TRUE
            /\ uiResponse' = Null
            /\ uiPc' = "fetch"
            /\ uiData' = NoData
            /\ uiBefore' = uiHistory
            /\ uiSends' = uiSends + 1
    /\ UNCHANGED <<uiRequest, uiHistory>>
    /\ UNCHANGED <<gateway, peer, store, catalog, hook, localStorage>>

\* the catch and finally blocks of sendRequest
Catch(message, time) ==
    /\ uiResponse' = errorResponse(message, time)
    /\ uiHistory' =
          KeepLast(uiHistory,
                   historyItem(uiSends, uiRequest, errorResponse(message, time),
                               uiRequest.method \o <<" ">> \o uiRequest.url
                                  \o <<" ","(","F","a","i","l","e","d",")">>))
    /\ localStorage' = Persist(uiHistory')
    /\ uiLoading' = FALSE
    /\ uiPc' = "idle"

\* await fetch(...) settles: with a Response, or it rejects
UiFetchSettles(ok) ==
    /\ uiPc = "fetch"
    /\ IF ok
       THEN /\ uiPc' = "json"
            /\ UNCHANGED <<uiLoading, uiResponse, uiHistory, uiData, localStorage>>
       ELSE /\ uiData' = [how |-> "fetch rejected", data |-> NoReply,
                          message |-> "Failed to fetch"]
            /\ \E time \in Durations : Catch("Failed to fetch", time)
    /\ UNCHANGED <<uiRequest, uiBefore, uiSends>>
    /\ UNCHANGED <<gateway, peer, store, catalog, hook>>

\* await res.json() settles with the gateway's reply <data>; the rest of the
\* try block runs, and the catch block when new URL(request.url) throws
UiJsonSettles(data) ==
    /\ uiPc = "json"
    /\ uiData' = [how |-> "data", data |-> data, message |-> ""]
    /\ \E time \in Durations :
          IF ParseURL(uiRequest.url).ok
          THEN /\ uiResponse' = responseData(data, uiRequest, time)
               /\ uiHistory' =
                     KeepLast(uiHistory,
                              historyItem(uiSends, uiRequest, responseData(data, uiRequest, time),
                                          uiRequest.method \o <<" ">>
                                             \o Pathname(uiRequest.url)))
               /\ localStorage' = Persist(uiHistory')
               /\ uiLoading' = FALSE
               /\ uiPc' = "idle"
          ELSE Catch("Invalid URL", time)
    /\ UNCHANGED <<uiRequest, uiBefore, uiSends>>
    /\ UNCHANGED <<gateway, peer, store, catalog, hook>>

\* await res.json() rejects: the reply is not JSON
UiJsonRejects ==
    /\ uiPc = "json"
    /\ uiData' = [how |-> "json rejected", data |-> NoReply,
                  message |-> "Unexpected token < in JSON at position 0"]
    /\ \E time \in Durations : Catch("Unexpected token < in JSON at position 0", time)
    /\ UNCHANGED <<uiRequest, uiBefore, uiSends>>
    /\ UNCHANGED <<gateway, peer, store, catalog, hook>>

InitPage ==
    /\ Entered({BadPayload})
    /\ peer = NoPeer
    /\ StoreIdle
    /\ PageIdleWith(StoredHistories)
    /\ CatalogIdle
    /\ HookIdle

NextPage ==
    \/ \E r \in UiRequests : UiEdit(r)
    \/ UiSendRequest
    \/ \E ok \in BOOLEAN : UiFetchSettles(ok)
    \/ \E data \in GatewayReplies(uiRequest) : UiJsonSettles(data)
    \/ UiJsonRejects

PageSpec == InitPage /\ [][NextPage]_vars

(***************************************************************************)
(* Properties                                                              *)
(***************************************************************************)
Returned == pc = "done"

\* the payload is an object whose url is missing, empty or not an absolute URL
MalformedTarget(r) == r.jsonOk /\ (~Truthy(r.url) \/ ~ParseURL(r.url.s).ok)

\* the payload passes the URL checks
WellFormedTarget(r) == r.jsonOk /\ Truthy(r.url) /\ ParseURL(r.url.s).ok

NoNetworkOrFileActivity == dnsLookups = 0 /\ hostsReads = 0 /\ outboundCalls = 0

\* C1: a missing, empty or unparsable url is answered with a 400 error and
\* no dns lookup, no hosts-file read and no outbound call is made; the error
\* names the URL whenever a method was supplied.
C1_MalformedTargetRejected ==
    MalformedTarget(req) =>
        /\ NoNetworkOrFileActivity
        /\ Returned =>
              /\ reply.kind = "error" /\ reply.http = 400
              /\ reply.error \in {"URL is required", "Invalid URL format",
                                  "HTTP method is required"}
              /\ Truthy(req.method) =>
                    reply.error \in {"URL is required", "Invalid URL format"}

C1_Witness ==
    /\ Returned /\ req.url = UrlNoScheme /\ Truthy(req.method)
    /\ reply = ErrorReply(400, "Invalid URL format")

MethodErrors == {"Invalid HTTP method", "HTTP method is required"}

\* C2: with a well-formed url, a string method outside the enumerated set
\* (compared upper-cased) is answered with a 400 method error and no outbound
\* call; a method inside the set in any letter case is never answered with a
\* method error and is sent upper-cased.
C2_MethodValidation ==
    (WellFormedTarget(req) /\ req.method.t = "string") =>
        IF toUpperCase(req.method.s) \notin validMethods
        THEN /\ outboundCalls = 0
             /\ Returned => /\ reply.kind = "error" /\ reply.http = 400
                            /\ reply.error \in MethodErrors
        ELSE /\ ~(reply.kind = "error" /\ reply.error \in MethodErrors)
             /\ out.state # "none" => out.method = toUpperCase(req.method.s)
             /\ pc \in {"inflight", "body"} => outboundCalls = 1

C2_Witness ==
    /\ Returned /\ req.method = Str(<<"F","O","O">>) /\ req.url = UrlHttp
    /\ reply = ErrorReply(400, "Invalid HTTP method")

\* C3 (as claimed): a 400 validation error is returned before any dns lookup
\* or hosts-file read of the invocation.
C3_ValidationBeforeIO ==
    (Returned /\ reply.kind = "error" /\ reply.http = 400) =>
        (dnsLookups = 0 /\ hostsReads = 0)

ContentTypeNames == {"Content-Type", "content-type", "CONTENT-TYPE"}

\* C4: for GET and HEAD in any letter case the outbound call has no body and
\* carries no content-type header other than the ones the caller supplied.
C4_BodyDroppedForGetHead ==
    (out.state # "none" /\ toUpperCase(req.method.s) \in bodylessMethods) =>
        /\ out.body = Undefined
        /\ \A k \in DOMAIN out.headers \cap ContentTypeNames :
              k \in DOMAIN req.headers /\ out.headers[k] = req.headers[k]

C4_Witness ==
    /\ out.state = "inflight"
    /\ req.method = Str(<<"H","e","A","d">>)
    /\ req.body.t = "object"
    /\ req.headers = NoHeaders
    /\ out.body = Undefined

\* C5 (as claimed): whenever the deadline fires with the call in flight, the
\* call is cancelled and the reply is status 0 / "Request Timeout".
C5_TimeoutReply ==
    timer = "fired" =>
        /\ out.state = "aborted"
        /\ Returned
        /\ reply.kind = "normalized"
        /\ reply.status = 0
        /\ reply.statusText = "Request Timeout"

\* the text a base64 payload decodes to
Base64Decode(b) ==
    IF b = CaPem.s
    THEN <<"-----BEGIN CERTIFICATE-----", "\n", "MIIB", "\n", "-----END CERTIFICATE-----">>
    ELSE IF b = CaGarbage.s THEN <<"hello">>
    ELSE <<>>

HasCertificateMarker(text) == includes(text, <<"-----BEGIN CERTIFICATE-----">>)

\* C6 (as claimed): with insecureTls false, a caCertificate whose decoded
\* text has no certificate marker is answered with a 400 error and no
\* outbound call.
C6_InvalidCertificateRejected ==
    (/\ req.jsonOk /\ ~req.insecureSSL
     /\ Truthy(req.caCertificate)
     /\ ~HasCertificateMarker(Base64Decode(req.caCertificate.s))) =>
        /\ outboundCalls = 0
        /\ Returned => (reply.kind = "error" /\ reply.http = 400)

\* the trust policy the request asks for
RequestedPolicy(r) ==
    IF r.insecureSSL THEN "InsecureSkipVerify"
    ELSE IF Truthy(r.caCertificate) THEN "CustomAuthority"
    ELSE "Default"

\* the trust policy an outbound call is made under
AppliedPolicy(o) ==
    IF ~o.rejectUnauthorized THEN "InsecureSkipVerify"
    ELSE IF Truthy(o.ca) THEN "CustomAuthority"
    ELSE "Default"

\* C7 (as claimed): an https call is made under the policy the request
\* selects: InsecureSkipVerify if insecureTls, else CustomAuthority(pem) with
\* exactly the supplied authority if a caCertificate is set, else Default.
C7_TrustPolicySelection ==
    (out.state # "none" /\ ParseURL(out.url).protocol = <<"h","t","t","p","s",":">>) =>
        /\ AppliedPolicy(out) = RequestedPolicy(req)
        /\ RequestedPolicy(req) = "CustomAuthority" => out.ca = req.caCertificate

LocalFailureTexts == {"Request Timeout", "Network Error", "Server Error"}

\* C8 (as claimed): a NormalizedResponse reply with status 0 has one of the
\* three local-failure status texts and a non-empty body, and is never the
\* reply for a response that was received from the remote server.
C8_StatusZeroIsLocalFailure ==
    (reply.kind = "normalized" /\ reply.status = 0) =>
        /\ reply.statusText \in LocalFailureTexts
        /\ reply.body # <<>>
        /\ out.state # "completed"

C10_JsonFallback ==
    (out.state = "completed"
     /\ includes(ContentType(resp.headers), <<"application/json">>)) =>
        /\ reply.kind = "normalized"
        /\ reply.status = resp.status
        /\ reply.body = IF JsonParse(resp.body).ok
                        THEN JsonStringify2(JsonParse(resp.body))
                        ELSE resp.body

\* the caller supplied a content-type header under some letter-casing
CallerContentType(r) == DOMAIN r.headers \cap ContentTypeNames # {}

\* the outbound call carries a Content-Type the gateway derived itself
AutoContentType ==
    /\ "Content-Type" \in DOMAIN out.headers
    /\ "Content-Type" \notin DOMAIN req.headers
    /\ out.headers["Content-Type"] = <<"application/json">>

\* C11 (as claimed): the outbound call carries an auto-derived Content-Type:
\* application/json exactly when the method is not GET/HEAD, a body is
\* present, the body is structured and the caller supplied no content-type
\* header under any letter-casing; caller-supplied ones are kept unchanged.
C11_AutoContentType ==
    out.state # "none" =>
        /\ AutoContentType <=>
              /\ toUpperCase(req.method.s) \notin bodylessMethods
              /\ Truthy(req.body)
              /\ req.body.t = "object"
              /\ ~CallerContentType(req)
        /\ \A k \in DOMAIN req.headers \cap ContentTypeNames :
              out.headers[k] = req.headers[k]

C13_NoRetries ==
    /\ outboundCalls <= 1
    /\ (reply.kind = "error" /\ reply.http = 400) => outboundCalls = 0
    /\ out.state # "none" <=> outboundCalls = 1

C13_Witness == Returned /\ out.state = "failed" /\ outboundCalls = 1

\* the URL u with exactly its host component replaced by newHost
WithHost(u, newHost) ==
    LET authStart == indexOf(u, <<":", "/", "/">>) + 3
        tail      == SubSeq(u, authStart, Len(u))
        auth      == SubSeq(tail, 1, FirstOf(tail, {"/", "?", "#"}) - 1)
        hostStart == authStart + LastOf(auth, "@")
        hostLen   == Len(HostOf(HostPort(auth)))
    IN  SubSeq(u, 1, hostStart - 1) \o newHost \o SubSeq(u, hostStart + hostLen, Len(u))

\* the address the static table or, failing that, the hosts file maps h to
MappedAddress(h) ==
    IF AddrTruthy(getEnvDnsMapping(dnsMappings, h))
    THEN getEnvDnsMapping(dnsMappings, h).ip
    ELSE checkEtcHosts(TRUE, HostsContent, h).ip

\* C14 (as claimed): under address substitution the dialed URL is the
\* caller's URL with exactly its host component replaced by the mapped
\* address, and the outbound Host header is the original hostname.
C14_HostSubstitution ==
    (customResolution /\ out.state # "none") =>
        /\ out.url = WithHost(req.url.s, MappedAddress(hostname))
        /\ "Host" \in DOMAIN out.headers
        /\ out.headers["Host"] = hostname

\* the host of the caller's url is a literal IPv4 address or a bracketed
\* literal IPv6 address
LiteralIPHost(r) ==
    LET h == ParseURL(r.url.s).hostname
    IN  \/ IsIPv4Literal(h)
        \/ (Len(h) >= 2 /\ h[1] = "[" /\ h[Len(h)] = "]"
            /\ IsIPv6Literal(SubSeq(h, 2, Len(h) - 1)))

\* C15 (as claimed): unless all three system lookups failed, and always for
\* a literal IP host, the dialed URL is the caller's and the gateway adds no
\* Host header.
C15_SubstitutionOnlyAfterSystemFailure ==
    (out.state # "none" /\ (dnsLookups < 3 \/ pc = "dns3" \/ LiteralIPHost(req))) =>
        /\ ~customResolution
        /\ out.url = req.url.s
        /\ "Host" \in DOMAIN out.headers => "Host" \in DOMAIN req.headers

\* C16: when the three system lookups failed and neither table gave an
\* address, the call is still issued, to the caller's unmodified URL, and the
\* only error reply possible before the call is the method validation one.
C16_ResolutionIsNoGate ==
    (hostsReads = 1 /\ pc \notin {"hosts", "prepare"} /\ ~customResolution) =>
        IF req.method.t = "string" /\ IsValidMethod(req.method.s)
        THEN outboundCalls = 1 /\ out.url = req.url.s
        ELSE Returned /\ outboundCalls = 0
             /\ reply \in {ErrorReply(400, "Invalid HTTP method"),
                           ServerErrorReply("method.toUpperCase is not a function")}

C16_Witness ==
    /\ pc = "inflight" /\ dnsLookups = 3 /\ hostsReads = 1 /\ ~customResolution
    /\ req.url = UrlHttp /\ dnsMappings = <<>>
    /\ out.url = req.url.s

\* C17 (as claimed): the deadline is armed before the first resolution step,
\* so it is running during every resolver and hosts-file wait.
C17_DeadlineCoversResolution ==
    pc \in {"dns1", "dns2", "dns3", "hosts"} => timer = "armed"

\* C18: under any interleaving of two invocations, a step of the running
\* invocation (its timeout and its aborted call included) leaves the
\* suspended invocation exactly as it was, and a context switch hands both
\* invocations over unchanged; so each one's reply is made from its own
\* request, the shared read-only configuration and its own outcomes only.
C18_InvocationsIndependent ==
    [][\/ peer' = peer
       \/ /\ peer' = Locals @@ [id |-> 3 - peer.id]
          /\ Locals' @@ [id |-> peer.id] = peer
          /\ dnsMappings' = dnsMappings]_vars

\* one invocation has timed out and replied while the other is still in flight
\* with its own deadline running
C18_Witness ==
    /\ peer.pc = "done" /\ peer.timer = "fired"
    /\ peer.reply.statusText = "Request Timeout"
    /\ pc = "inflight" /\ timer = "armed" /\ out.state = "inflight"

\* the value read back for a saved optional text: NULL when it was absent
ReadBackText(v) == IF v.t = "undefined" THEN Null ELSE v

\* whether <got> carries what <saved> carried: the flag, method, url, headers
\* and body of the request, and the status, statusText, url and redirected of
\* the response (an absent url reads back as null, an absent redirected as false)
SameRecord(saved, got) ==
    /\ got.id = saved.id
    /\ got.request.insecureSSL = saved.request.insecureSSL
    /\ got.request.method = saved.request.method
    /\ got.request.url = saved.request.url
    /\ got.request.headers = saved.request.headers
    /\ got.request.body = saved.request.body
    /\ got.response.status = saved.response.status
    /\ got.response.statusText = saved.response.statusText
    /\ got.response.url = ReadBackText(saved.response.url)
    /\ got.response.redirected = Bool(~Falsy(saved.response.redirected))

C20_SendAlwaysRecorded ==
    (uiPc = "idle" /\ uiSends > 0) =>
        /\ ~uiLoading
        /\ uiResponse # Null
        /\ Len(uiHistory) = 1 + (IF Len(uiBefore) < 99 THEN Len(uiBefore) ELSE 99)
        /\ Tail(uiHistory) = SubSeq(uiBefore, 1, Len(uiHistory) - 1)
        /\ \A i \in DOMAIN uiBefore : uiBefore[i].id # Head(uiHistory).id
        /\ Head(uiHistory).response = uiResponse
        /\ (uiData.how # "data" \/ uiData.data.status = 0) =>
              Head(uiHistory).response.status = 0

\* a timed-out call has been recorded at the head of a history that was full
C20_Witness ==
    /\ uiPc = "idle" /\ uiSends = 2
    /\ Len(uiBefore) = 100 /\ Len(uiHistory) = 100
    /\ uiData.how = "data" /\ uiData.data.statusText = "Request Timeout"
    /\ Head(uiHistory).response.status = 0

\* C21 (as claimed): the handler never waits for the body of a response that
\* is still arriving with the deadline no longer armed, so a body that never
\* finishes ends in the timeout reply.
C21_DeadlineCoversBody ==
    (pc = "body" /\ ~resp.buffered) => timer = "armed"

\* C22 (as claimed): the hosts file is read only when the static mapping table
\* has no entry for the hostname, and when the table has one its address is
\* the one substituted.
C22_HostsReadLazy ==
    /\ hostsReads > 0 => ~AddrTruthy(getEnvDnsMapping(dnsMappings, hostname))
    /\ (customResolution /\ AddrTruthy(getEnvDnsMapping(dnsMappings, hostname))) =>
          resolvedUrl = replace(req.url.s, hostname,
                                getEnvDnsMapping(dnsMappings, hostname).ip)

\* C23 (as claimed): when the host of the target URL is a literal IPv4 address
\* or a bracketed literal IPv6 address, no system lookup is made, the hosts
\* file is not read, no address is substituted and the URL is dialed unchanged.
C23_LiteralIPSkipsResolution ==
    (WellFormedTarget(req) /\ LiteralIPHost(req)) =>
        /\ dnsLookups = 0
        /\ hostsReads = 0
        /\ ~customResolution
        /\ out.state # "none" => out.url = req.url.s

\* the scheme of the dialed URL is https
DialsHttps(o) == ParseURL(o.url).ok /\ ParseURL(o.url).protocol = <<"h","t","t","p","s",":">>

\* C24: an outbound call is made without certificate verification only when
\* the request set insecureSSL and the dialed URL is https; every call to an
\* http target and every call of a request without insecureSSL goes through
\* fetch with verification on.
C24_VerificationDisabledOnlyOnRequest ==
    out.state # "none" =>
        /\ ~out.rejectUnauthorized => (req.insecureSSL /\ DialsHttps(out))
        /\ (~req.insecureSSL \/ ~DialsHttps(out)) =>
              (out.transport = "fetch" /\ out.rejectUnauthorized)

\* a request with insecureSSL set and an http target has been sent through fetch
C24_Witness ==
    /\ out.state # "none" /\ req.insecureSSL /\ ~DialsHttps(out)
    /\ out.url = UrlHttp.s /\ out.transport = "fetch"

\* C25 (as claimed): a payload that is not JSON, and a payload whose method is
\* present but not a string, are answered with a 400-class error and no
\* outbound call, never with the 500 "Server Error" reply.
C25_MalformedInputIs400 ==
    (Returned /\ (~req.jsonOk \/ (Truthy(req.url) /\ req.method.t = "number"))) =>
        /\ reply.kind = "error"
        /\ reply.http \in 400..499
        /\ outboundCalls = 0

\* C26: once the handler has returned, the timer it armed is cleared or has
\* fired and its outbound call is not in flight: it completed, failed or was
\* aborted; when the timer fired the call was aborted.
C26_NothingLeftBehind ==
    Returned =>
        /\ timer \in {"unset", "cleared", "fired"}
        /\ timer = "unset" <=> out.state = "none"
        /\ out.state \in {"none", "completed", "failed", "aborted"}
        /\ timer = "fired" <=> out.state = "aborted"

\* the deadline fired on a call of the https transport, which was destroyed
C26_Witness ==
    /\ Returned /\ timer = "fired"
    /\ out.transport = "https" /\ out.state = "aborted"

\* C27 (as claimed): whichever transport made the call, when the remote
\* answered with a redirect the reply built from the response has redirected
\* true and url equal to the URL the redirect led to.
C27_TransportsAgreeOnRedirect ==
    (Returned /\ out.state = "completed" /\ reply.kind = "normalized"
     /\ resp.first \in RedirectStatuses) =>
        /\ reply.redirected
        /\ reply.url = RedirectTarget

\* ---------------------------------------------------------------------------
\* The requests of a collection: table collection_requests and its routes
\* ---------------------------------------------------------------------------

\* the ids the client gives to the requests it saves
RequestIds == {"r1", "r2", "r3"}

\* the collections the requests are saved into
CollectionIds == {"c1", "c2"}

\* the rows of one collection (WHERE collectionId = ?)
RowsOf(table, collectionId) == {row \in table : row.collectionId = collectionId}

\* SELECT COALESCE(MAX("order"), -1) as maxOrder FROM collection_requests WHERE collectionId = ?
getMaxOrder(table, collectionId) ==
    IF RowsOf(table, collectionId) = {}
    THEN -1
    ELSE CHOOSE m \in {row.order : row \in RowsOf(table, collectionId)} :
            \A row \in RowsOf(table, collectionId) : row.order <= m

\* const order = (maxOrderResult?.maxOrder || -1) + 1;  0 is falsy
nextOrder(maxOrder) == (IF maxOrder = 0 THEN -1 ELSE maxOrder) + 1

\* the rowid SQLite gives to a new row: one more than the largest in the table
nextRowid(table) == Cardinality(table) + 1

\* what a collections route answers
RequestsReply(kind, http, requests) == [kind |-> kind, http |-> http, requests |-> requests]

\* POST /api/collection-requests with { collectionId, request }
RequestsPOST(collectionId, id) ==
    LET order == nextOrder(getMaxOrder(requestsTable, collectionId))
        row == [id |-> id, collectionId |-> collectionId, order |-> order,
                rowid |-> nextRowid(requestsTable)]
    IN  /\ IF \E old \in requestsTable : old.id = id
           THEN \* id TEXT PRIMARY KEY: the insert throws, the catch answers 500
                /\ requestsReply' = RequestsReply("error", 500, <<>>)
                /\ UNCHANGED requestsTable
           ELSE /\ requestsTable' = requestsTable \cup {row}
                /\ requestsReply' = RequestsReply("success", 200, <<>>)
        /\ UNCHANGED <<gateway, peer, store, page, hook, localStorage>>

\* SELECT * FROM collection_requests WHERE collectionId = ? ORDER BY "order" ASC:
\* the sequences of ids the statement may return (rows of equal order in any order)
getCollectionRequests(table, collectionId) ==
    LET rows == RowsOf(table, collectionId)
        n == Cardinality(rows)
    IN  {[i \in 1..n |-> f[i].id] : f \in
            {g \in [1..n -> rows] :
                /\ \A i, j \in 1..n : i # j => g[i] # g[j]
                /\ \A i, j \in 1..n : i < j => g[i].order <= g[j].order}}

\* GET /api/collections: every collection with its requests
CollectionsGET ==
    /\ \E listing \in [CollectionIds -> UNION {getCollectionRequests(requestsTable, c) : c \in CollectionIds}] :
        /\ \A c \in CollectionIds : listing[c] \in getCollectionRequests(requestsTable, c)
        /\ requestsReply' = RequestsReply("list", 200, listing)
    /\ UNCHANGED requestsTable
    /\ UNCHANGED <<gateway, peer, store, page, hook, localStorage>>

InitCollections ==
    /\ Entered({BadPayload})
    /\ peer = NoPeer
    /\ StoreIdle
    /\ PageIdle
    /\ CatalogIdle
    /\ HookIdle

NextCollections ==
    \/ \E c \in CollectionIds, id \in RequestIds : RequestsPOST(c, id)
    \/ CollectionsGET

CollectionSpec == InitCollections /\ [][NextCollections]_vars

\* the ids of one collection in the order their rows were inserted
InsertionOrder(table, collectionId) ==
    LET rows == RowsOf(table, collectionId)
        n == Cardinality(rows)
    IN  CHOOSE f \in [1..n -> {row.id : row \in rows}] :
            \A a, b \in rows :
                a.rowid < b.rowid =>
                    \E i, j \in 1..n : i < j /\ f[i] = a.id /\ f[j] = b.id

\* C28: the requests of one collection have strictly increasing order values in
\* insertion order, and the collections GET route lists them in the order they
\* were added.
C28_OrdersFollowInsertion ==
    /\ \A a, b \in requestsTable :
          (a.collectionId = b.collectionId /\ a.rowid < b.rowid) => a.order < b.order
    /\ requestsReply.kind = "list" =>
          \A c \in CollectionIds :
              requestsReply.requests[c] = InsertionOrder(requestsTable, c)

\* ---------------------------------------------------------------------------
\* The hook useDatabase: saveHistoryItem
\* ---------------------------------------------------------------------------

\* the ids (Date.now()) of the items handed to saveHistoryItem
SavedIds == {101, 102, 103}

\* the items handed to saveHistoryItem
SavedItems ==
    {historyItem(n, [InitialRequest EXCEPT !.url = UrlHttp.s],
                 errorResponse("Failed to fetch", 0),
                 <<"G","E","T"," ">> \o UrlHttp.s \o <<" ","(","F","a","i","l","e","d",")">>)
        : n \in SavedIds}

\* a call of saveHistoryItem: its argument, the `history` its closure captured,
\* and where it stands
SaveCall(item, history, state) == [item |-> item, history |-> history, state |-> state]

\* how await fetch('/api/history', ...) ends: response.ok, !response.ok, or it throws
FetchOutcomes == {"ok", "not ok", "throws"}

\* saveHistoryItem(item) up to await fetch(...): the callback of the current
\* render has the current history in its closure
HookSaveBegins(item) ==
    /\ \A call \in hookCalls : call.item # item
    /\ hookCalls' = hookCalls \cup {SaveCall(item, hookHistory, "pending")}
    /\ UNCHANGED <<hookHistory, localStorage>>
    /\ UNCHANGED <<gateway, peer, store, page, catalog>>

\* saveHistoryItem(item) from the point where await fetch(...) settles
HookSaveSettles(item, outcome) ==
    \E call \in hookCalls :
        /\ call.item = item
        /\ call.state = "pending"
        /\ IF outcome = "ok"
           THEN /\ hookHistory' = KeepLast(hookHistory, item)
                /\ hookCalls' = (hookCalls \ {call}) \cup {[call EXCEPT !.state = "saved"]}
                /\ UNCHANGED localStorage
           ELSE LET updatedHistory == KeepLast(call.history, item)
                IN  /\ hookHistory' = updatedHistory
                    /\ localStorage' = updatedHistory
                    /\ hookCalls' = (hookCalls \ {call}) \cup {[call EXCEPT !.state = "fell back"]}
        /\ UNCHANGED <<gateway, peer, store, page, catalog>>

InitHook ==
    /\ Entered({BadPayload})
    /\ peer = NoPeer
    /\ StoreIdle
    /\ PageIdle
    /\ CatalogIdle
    /\ HookIdle

NextHook ==
    \/ \E item \in SavedItems : HookSaveBegins(item)
    \/ \E item \in SavedItems, outcome \in FetchOutcomes : HookSaveSettles(item, outcome)

HookSpec == InitHook /\ [][NextHook]_vars

\* item is one of the elements of the list
Holds(list, item) == \E i \in 1..Len(list) : list[i] = item

\* C29: no history item is lost by the fallback path of saveHistoryItem: once
\* every call has settled, each item whose call fell back is in the history
\* state and in the localStorage copy, also when the calls overlapped.
C29_FallbackLosesNothing ==
    (\A call \in hookCalls : call.state # "pending") =>
        \A call \in hookCalls :
            call.state = "fell back" =>
                /\ Holds(hookHistory, call.item)
                /\ Holds(localStorage, call.item)

\* ---------------------------------------------------------------------------
\* The client's history list: the page's and the hook's operations together
\* ---------------------------------------------------------------------------

\* prev.filter((item) => item.id !== id)
Without(list, id) == SelectSeq(list, LAMBDA item : item.id # id)

\* the page's clearHistory
UiClearHistory ==
    /\ uiHistory' = <<>>
    /\ localStorage' = <<>>
    /\ UNCHANGED <<uiPc, uiRequest, uiLoading, uiResponse, uiData, uiBefore, uiSends>>
    /\ UNCHANGED <<gateway, peer, store, catalog, hook>>

\* the page's deleteHistoryItem(id)
UiDeleteHistoryItem(id) ==
    /\ Holds([i \in 1..Len(uiHistory) |-> uiHistory[i].id], id)
    /\ uiHistory' = Without(uiHistory, id)
    /\ localStorage' = Persist(uiHistory')
    /\ UNCHANGED <<uiPc, uiRequest, uiLoading, uiResponse, uiData, uiBefore, uiSends>>
    /\ UNCHANGED <<gateway, peer, store, catalog, hook>>

\* the files a user picks for import: an export made earlier (two items), a
\* JSON document that is not an array, a file that is not JSON
ImportFiles ==
    {[kind |-> "array", items |-> <<OldItem(201), OldItem(202)>>],
     [kind |-> "object", items |-> <<>>],
     [kind |-> "invalid", items |-> <<>>]}

\* the page's importHistory, reader.onload; a file is imported again only
\* after its items have left the list
UiImportHistory(file) ==
    /\ \A i \in 1..Len(file.items) : ~Holds(uiHistory, file.items[i])
    /\ IF file.kind = "array"
       THEN /\ uiHistory' = file.items \o uiHistory
            /\ localStorage' = Persist(uiHistory')
       ELSE UNCHANGED <<uiHistory, localStorage>>
    /\ UNCHANGED <<uiPc, uiRequest, uiLoading, uiResponse, uiData, uiBefore, uiSends>>
    /\ UNCHANGED <<gateway, peer, store, catalog, hook>>

\* the hook's deleteHistoryItem(id), from the point where await fetch(...) settles
HookDeleteHistoryItem(id, outcome) ==
    /\ Holds([i \in 1..Len(hookHistory) |-> hookHistory[i].id], id)
    /\ hookHistory' = IF outcome = "ok" THEN Without(hookHistory, id) ELSE hookHistory
    /\ UNCHANGED <<hookCalls, localStorage>>
    /\ UNCHANGED <<gateway, peer, store, page, catalog>>

\* the hook's clearHistory, from the point where await fetch(...) settles
HookClearHistory(outcome) ==
    /\ IF outcome = "ok"
       THEN /\ hookHistory' = <<>>
            /\ localStorage' = <<>>
       ELSE UNCHANGED <<hookHistory, localStorage>>
    /\ UNCHANGED hookCalls
    /\ UNCHANGED <<gateway, peer, store, page, catalog>>

\* the request the form holds in this specification
ClientRequests == {[InitialRequest EXCEPT !.url = UrlHttp.s]}

\* the item handed to saveHistoryItem in this specification
ClientSaved == {item \in SavedItems : item.id = 101}

\* the ids whose delete button is clicked
ClientDeleted == {-1, 101}

\* the gateway's answer to the form's request in this specification
ClientReplies == {Normalized(200, 200, "OK", NoHeaders, <<"ok">>, UrlHttp.s, FALSE)}

\* the history the page finds in localStorage in this specification: 99 items
ClientStored == {list \in StoredHistories : Len(list) = Kept}

InitClient ==
    /\ Entered({BadPayload})
    /\ peer = NoPeer
    /\ StoreIdle
    /\ PageIdleWith(ClientStored)
    /\ CatalogIdle
    /\ HookIdle

NextClient ==
    \/ \E r \in ClientRequests : UiEdit(r)
    \/ UiSendRequest
    \/ \E ok \in {TRUE} : UiFetchSettles(ok)
    \/ \E data \in ClientReplies : UiJsonSettles(data)
    \/ UiClearHistory
    \/ \E id \in ClientDeleted : UiDeleteHistoryItem(id)
    \/ \E file \in ImportFiles : UiImportHistory(file)
    \/ \E item \in ClientSaved : HookSaveBegins(item)
    \/ \E item \in ClientSaved, outcome \in FetchOutcomes : HookSaveSettles(item, outcome)
    \/ \E id \in ClientDeleted, outcome \in FetchOutcomes : HookDeleteHistoryItem(id, outcome)
    \/ \E outcome \in FetchOutcomes : HookClearHistory(outcome)

ClientSpec == InitClient /\ [][NextClient]_vars

\* // Keep last 100 requests
HistoryCap == Kept + 1

\* every item of the list is at least as new as the items after it
NewestFirst(list) ==
    \A i, j \in 1..Len(list) : i < j => list[i].timestamp >= list[j].timestamp

\* C30: the client keeps only the last 100 requests: the history lists in
\* memory and the copy in localStorage hold at most 100 items, the newest first.
C30_KeepsLast100 ==
    \A list \in {uiHistory, hookHistory, localStorage} :
        /\ Len(list) <= HistoryCap
        /\ NewestFirst(list)

====
